---- MODULE Spec2Model ----
(***************************************************************************)
(* A model of the recursive ray tracer of main3.py: the Vector3 algebra,   *)
(* Sphere.intersect, Scene.hit, Camera, the recursive shader Ray.color as  *)
(* an explicit call stack, and the pixel loop of render_scene.             *)
(*                                                                         *)
(* Python floats are modelled as fixed-point numbers: the integer n stands *)
(* for the real n / Scale, and every multiplication, division and square   *)
(* root rounds its exact result to that grid, as a float operation rounds  *)
(* to the nearest representable value.  Python's None is the empty tuple   *)
(* and a present value v is the one-element tuple <<v>>.                   *)
(*                                                                         *)
(* Python evaluates the right-hand side of an assignment once.  Where a    *)
(* local variable of the source is used several times, the model binds it  *)
(* the same way, as  CHOOSE r \in {body : variable \in {value}} : TRUE,    *)
(* which is body with the variable bound to the value, computed once.      *)
(***************************************************************************)
EXTENDS Integers, Sequences, FiniteSets, TLC

VARIABLES
    scene,      \* the Scene: [lighting |-> Seq(Light), objects |-> Seq(Sphere)]
    camera,     \* the Camera built by render_scene
    stack,      \* per worker: the frames of the active Ray.color invocations
    total,      \* per worker: the Vector3 object total_color of the current pixel
    pix,        \* per worker: the pixel <<x, y>> being computed, or None
    samp,       \* per worker: the number of sub-samples already summed
    buffer,     \* image_buffer: buffer[y][x] is an <<r, g, b>> triple
    status,     \* per worker: "idle", "running", "returned" or the exception raised
    result,     \* per worker: the value the last top-level Ray.color call returned
    hist,       \* history of what ran, kept for stating the properties
    query,      \* the ray of a Scene.hit query and what the query returned
    heap,       \* the Vector3 objects held by reference: id -> components
    names       \* the holders of Vector3 references: name -> id

vars == <<scene, camera, stack, total, pix, samp, buffer, status, result,
          hist, query, heap, names>>

None == <<>>
Some(v) == <<v>>

(***************************************************************************)
(* Fixed-point numbers                                                     *)
(***************************************************************************)
Scale == 1000

Abs(n) == IF n < 0 THEN -n ELSE n

\* n / d rounded to the nearest integer, halves away from zero
Round(n, d) ==
    CHOOSE r \in {IF (m < 0) = (e < 0)
                  THEN (2 * Abs(m) + Abs(e)) \div (2 * Abs(e))
                  ELSE -((2 * Abs(m) + Abs(e)) \div (2 * Abs(e))) :
                     m \in {n}, e \in {d}} : TRUE

FMul(a, b) == Round(a * b, Scale)

FDiv(a, b) == Round(a * Scale, b)

\* Newton's iteration for the integer square root of n, from the estimate r
RECURSIVE SqrtIter(_, _)
SqrtIter(n, r) ==
    CHOOSE s \in {IF r2 >= r THEN r ELSE SqrtIter(n, r2) :
                     r2 \in {(r + n \div r) \div 2}} : TRUE

\* math.sqrt on the grid: floor(sqrt(x / Scale) * Scale)
Sqrt(x) ==
    CHOOSE s \in {IF n <= 0 THEN 0 ELSE SqrtIter(n, n) : n \in {x * Scale}} : TRUE

\* x ** n for an integer exponent n >= 0
RECURSIVE Pow(_, _)
Pow(x, n) ==
    IF n = 0 THEN Scale
    ELSE IF n % 2 = 0
         THEN CHOOSE s \in {FMul(h, h) : h \in {Pow(x, n \div 2)}} : TRUE
         ELSE FMul(x, Pow(x, n - 1))

Max(a, b) == IF b > a THEN b ELSE a

Min(a, b) == IF b < a THEN b ELSE a

(***************************************************************************)
(* Vector3                                                                 *)
(***************************************************************************)
Vector3(x, y, z) == [x |-> x, y |-> y, z |-> z]

\* Vector3 built from whole numbers: V(1, 0, 5) is Vector3(1, 0, 5)
V(x, y, z) == Vector3(x * Scale, y * Scale, z * Scale)

Add(self, other) == Vector3(self.x + other.x, self.y + other.y, self.z + other.z)

Neg(self) == Vector3(-self.x, -self.y, -self.z)

Sub(self, other) == Vector3(self.x - other.x, self.y - other.y, self.z - other.z)

\* __mul__ with a Vector3 operand: component-wise
MulVec(self, other) ==
    Vector3(FMul(self.x, other.x), FMul(self.y, other.y), FMul(self.z, other.z))

\* __mul__ / __rmul__ with a numeric operand
MulNum(self, other) ==
    Vector3(FMul(self.x, other), FMul(self.y, other), FMul(self.z, other))

\* __truediv__ for a non-zero scalar: a new Vector3
TrueDiv(self, scalar) ==
    Vector3(FDiv(self.x, scalar), FDiv(self.y, scalar), FDiv(self.z, scalar))

Dot(self, other) ==
    FMul(self.x, other.x) + FMul(self.y, other.y) + FMul(self.z, other.z)

Cross(self, other) ==
    Vector3(FMul(self.y, other.z) - FMul(self.z, other.y),
            -FMul(self.x, other.z) + FMul(self.z, other.x),
            FMul(self.x, other.y) - FMul(self.y, other.x))

Length(self) ==
    CHOOSE r \in {Sqrt(FMul(v.x, v.x) + FMul(v.y, v.y) + FMul(v.z, v.z)) :
                     v \in {self}} : TRUE

Normalize(self) ==
    CHOOSE r \in {IF length # 0
                  THEN Vector3(FDiv(v.x, length), FDiv(v.y, length), FDiv(v.z, length))
                  ELSE Vector3(0, 0, 0) :
                     v \in {self}, length \in {Length(self)}} : TRUE

Reflect(self, normal) ==
    CHOOSE r \in {Sub(v, MulNum(n, 2 * Dot(v, n))) : v \in {self}, n \in {normal}} : TRUE

\* uint8(c * 255) of a channel clamped to [0, 1]: truncation
Channel(c) == (Max(0, Min(Scale, c)) * 255) \div Scale

Rgb(self) == <<Channel(self.x), Channel(self.y), Channel(self.z)>>

(***************************************************************************)
(* Ray, Sphere, Scene.hit                                                  *)
(***************************************************************************)
Ray(origin, direction) == [origin |-> origin, direction |-> direction]

Point(ray, t) == Add(ray.origin, MulNum(ray.direction, t))

\* the threshold 0.001 of Sphere.intersect
HitEps == 1

\* the coefficients a, b, c of the quadratic and its discriminant d
Quadratic(sphere, ray) ==
    CHOOSE q \in {[a |-> a, b |-> b, c |-> c, d |-> FMul(b, b) - FMul(4 * a, c)] :
                     a \in {Dot(ray.direction, ray.direction)},
                     b \in {2 * Dot(Sub(ray.origin, sphere.center), ray.direction)},
                     c \in {Dot(Sub(ray.origin, sphere.center),
                                Sub(ray.origin, sphere.center))
                            - FMul(sphere.radius, sphere.radius)}} : TRUE

\* the roots t1 <= t2 of a quadratic q with q.d >= 0
Roots(q) ==
    CHOOSE r \in {[t1 |-> FDiv(-q.b - sq, 2 * q.a), t2 |-> FDiv(-q.b + sq, 2 * q.a)] :
                     sq \in {Sqrt(q.d)}} : TRUE

AcceptMutNoEps(t1, t2) ==
    IF t1 > 0 THEN Some(t1)
    ELSE IF t2 > 0 THEN Some(t2)
    ELSE None

\* the root Sphere.intersect returns
Accept(t1, t2) ==
    IF t1 > HitEps THEN Some(t1)
    ELSE IF t2 > HitEps THEN Some(t2)
    ELSE None

Intersect(sphere, ray) ==
    CHOOSE t \in {IF q.d < 0 THEN None
                  ELSE CHOOSE u \in {Accept(r.t1, r.t2) : r \in {Roots(q)}} : TRUE :
                     q \in {Quadratic(sphere, ray)}} : TRUE

NormalVector(sphere, point) == Normalize(Sub(point, sphere.center))

\* float('inf'), the start value of closest_t
Inf == <<"float", "inf">>

\* t < closest_t, where closest_t may still be float('inf')
CloserMutTie(t, closest_t) == closest_t = Inf \/ t[1] <= closest_t[1]

Closer(t, closest_t) == closest_t = Inf \/ t[1] < closest_t[1]

\* the loop of Scene.hit from object i on; a sphere is named by its index
RECURSIVE HitScan(_, _, _, _, _)
HitScan(objects, ray, i, closest_t, closest_obj) ==
    IF i > Len(objects) THEN <<closest_t, closest_obj>>
    ELSE CHOOSE r \in {IF t # None /\ Closer(t, closest_t)
                       THEN HitScan(objects, ray, i + 1, t, Some(i))
                       ELSE HitScan(objects, ray, i + 1, closest_t, closest_obj) :
                          t \in {Intersect(objects[i], ray)}} : TRUE

Hit(sc, ray) ==
    CHOOSE r \in {IF found[2] # None
                  THEN [hit_point |-> Some(Point(ray, found[1][1])), obj |-> found[2]]
                  ELSE [hit_point |-> None, obj |-> None] :
                     found \in {HitScan(sc.objects, ray, 1, Inf, None)}} : TRUE

(***************************************************************************)
(* Operands of the shading arithmetic as Python objects.  A color may be a *)
(* Vector3 or some other object (a tuple, as the default emission_color);  *)
(* a Vector3's components are Python ints ("int"), numbers of which some   *)
(* are floats ("float"), or sequences such as strings ("seq"), for which   *)
(* `*` with an int repeats, `*` with anything else and `+` with a number   *)
(* raise TypeError.  v holds the numeric components.                       *)
(***************************************************************************)
PyVec(elem, v) == [cls |-> "Vector3", elem |-> elem, v |-> v]

PyNum(elem, n) == [cls |-> "num", elem |-> elem, v |-> n]

PyTuple == [cls |-> "tuple"]

TypeError == [cls |-> "TypeError"]

\* the element kind of a product or sum of two numbers
Join(e1, e2) == IF e1 = "int" /\ e2 = "int" THEN "int" ELSE "float"

\* Vector3.__mul__(self, other), self a Vector3
Mul(self, other) ==
    IF other.cls = "Vector3"
    THEN IF self.elem = "seq" \/ other.elem = "seq"
         THEN IF self.elem = "int" \/ other.elem = "int"
              THEN PyVec("seq", self.v)
              ELSE TypeError
         ELSE PyVec(Join(self.elem, other.elem), MulVec(self.v, other.v))
    ELSE IF other.cls = "num"
    THEN IF self.elem = "seq"
         THEN IF other.elem = "int" THEN PyVec("seq", self.v) ELSE TypeError
         ELSE PyVec(Join(self.elem, other.elem), MulNum(self.v, other.v))
    ELSE TypeError

\* a * b: __mul__ of a Vector3 on the left, else __rmul__ of one on the right
PyMul(a, b) ==
    CHOOSE r \in {IF x = TypeError \/ y = TypeError THEN TypeError
                  ELSE IF x.cls = "Vector3" THEN Mul(x, y)
                  ELSE IF y.cls = "Vector3" THEN Mul(y, x)
                  ELSE TypeError : x \in {a}, y \in {b}} : TRUE

\* Vector3.__add__(self, other) of two Vector3 objects
PyAdd(self, other) ==
    IF self = TypeError \/ other = TypeError THEN TypeError
    ELSE IF (self.elem = "seq") # (other.elem = "seq") THEN TypeError
    ELSE IF self.elem = "seq" THEN PyVec("seq", self.v)
    ELSE PyVec(Join(self.elem, other.elem), Add(self.v, other.v))

\* max(x, 0) of a float x: the int 0 when x < 0
PyMax0(x) ==
    CHOOSE r \in {IF 0 > v THEN PyNum("int", 0) ELSE PyNum("float", v) : v \in {x}} : TRUE

\* base ** shininess, shininess an int >= 0
PyPow(base, shininess) == PyNum(base.elem, Pow(base.v, shininess))

(***************************************************************************)
(* Material, Light, Sphere                                                 *)
(***************************************************************************)
\* Material.__init__; ambient_color = None is the default argument
Material(diffuse_color, specular_color, ambient_color, shininess, reflectivity, transparency, refractive_index, emission_color) ==
    [diffuse_color    |-> diffuse_color,
     specular_color   |-> specular_color,
     ambient_color    |-> IF ambient_color # None THEN ambient_color[1]
                          ELSE diffuse_color,
     shininess        |-> shininess,
     reflectivity     |-> reflectivity,
     transparency     |-> transparency,
     refractive_index |-> refractive_index,
     emission_color   |-> emission_color]

Light(position, color, intensity) ==
    [position |-> position, color |-> color, intensity |-> intensity]

Sphere(center, radius, material) ==
    [center |-> center, radius |-> radius, material |-> material]

Scene(lighting, objects) == [lighting |-> lighting, objects |-> objects]

(***************************************************************************)
(* Ray.color, statement by statement                                       *)
(***************************************************************************)
\* the default of the parameter max_depth
DefaultMaxDepth == 3

\* epsilon = 0.01, the offset of the reflection ray's origin
Epsilon == 10

BaseCaseMutOffByOne(hit_point, depth, max_depth) ==
    hit_point = None \/ depth > max_depth

\* the condition of the base case
BaseCase(hit_point, depth, max_depth) ==
    hit_point = None \/ depth >= max_depth

\* the background color of the base case
Background(ray) ==
    CHOOSE color \in {Add(MulNum(V(1, 1, 1), Scale - alpha),
                          MulNum(Vector3(Scale \div 2, (7 * Scale) \div 10, Scale),
                                 alpha)) :
                         alpha \in {FMul(Scale \div 2, ray.direction.y + Scale)}} : TRUE

DiffuseMutIntensity(material, light, i_diff) ==
    PyMul(PyMul(PyMul(material.diffuse_color, light.color), i_diff),
          PyNum("float", light.intensity))

\* diffuse = obj.material.diffuse_color * light.color * i_diff
Diffuse(material, light, i_diff) ==
    PyMul(PyMul(material.diffuse_color, light.color), i_diff)

\* specular = obj.material.specular_color * light.color * i_spec
Specular(material, light, i_spec) ==
    PyMul(PyMul(material.specular_color, light.color), i_spec)

\* the diffuse and specular terms of one light for a frame f
Terms(f, material, light) ==
    CHOOSE p \in {
        CHOOSE p1 \in {[diffuse  |-> Diffuse(material, light, i_diff),
                        specular |-> Specular(material, light, i_spec)] :
               i_diff \in {PyMax0(Dot(f.normal, light_dir))},
               i_spec \in {PyPow(PyMax0(Dot(reflect_dir, f.view_dir)),
                                 material.shininess)}} : TRUE :
           light_dir \in {Normalize(Sub(light.position, f.hit_point))},
           reflect_dir \in {Reflect(Neg(f.view_dir), f.normal)}} : TRUE

AccumulateMutNoTry(color, diffuse, specular) ==
    CHOOSE p \in {IF sum = TypeError
                  THEN [raised |-> TRUE, caught |-> FALSE, color |-> color]
                  ELSE [raised |-> FALSE, caught |-> FALSE, color |-> sum.v] :
                     sum \in {PyAdd(PyAdd(PyVec("float", color), diffuse),
                                    specular)}} : TRUE

\* color = color + diffuse + specular inside try / except TypeError: what
\* the statement raises to the caller ("raised"), whether the except clause
\* ran ("caught"), and the value of color after it
Accumulate(color, diffuse, specular) ==
    CHOOSE p \in {IF sum = TypeError
                  THEN [raised |-> FALSE, caught |-> TRUE, color |-> color]
                  ELSE [raised |-> FALSE, caught |-> FALSE, color |-> sum.v] :
                     sum \in {PyAdd(PyAdd(PyVec("float", color), diffuse),
                                    specular)}} : TRUE

\* One pass of the loop over scene.lighting for a frame f.  A TypeError in
\* computing diffuse or specular is raised before the try statement.
LightPass(f, material, light) ==
    CHOOSE p \in {IF t.diffuse = TypeError \/ t.specular = TypeError
                  THEN [raised |-> TRUE, caught |-> FALSE, color |-> f.color]
                  ELSE Accumulate(f.color, t.diffuse, t.specular) :
                     t \in {Terms(f, material, light)}} : TRUE

\* ref_ray = Ray(hit_point + normal * epsilon, self.direction.reflect(normal))
RefRay(f) ==
    Ray(Add(f.hit_point, MulNum(f.normal, Epsilon)),
        Reflect(f.ray.direction, f.normal))

\* Ray.mix_color
MixColor(a, b, t) == Add(MulNum(a, Scale - t), MulNum(b, t))

(***************************************************************************)
(* Camera                                                                  *)
(***************************************************************************)
\* tan(radians(fov / 2)) for the fields of view in use
TanHalf(fov) == CASE fov = 90 -> Scale [] fov = 75 -> (767 * Scale) \div 1000

\* the degeneracy threshold 0.001 of the camera basis
BasisEps == 1

Camera(position, target, fov, width, height) ==
    LET aspect_ratio  == FDiv(width * Scale, height * Scale)
        screen_width  == 2 * TanHalf(fov)
        forward       == Normalize(Sub(target, position))
        right0        == Normalize(Cross(V(0, 1, 0), forward))
        right         == IF Length(right0) < BasisEps
                         THEN Normalize(Cross(V(0, 0, 1), forward))
                         ELSE right0
    IN  [position        |-> position,
         width           |-> width,
         height          |-> height,
         aspect_ratio    |-> aspect_ratio,
         screen_distance |-> Scale,
         screen_width    |-> screen_width,
         screen_height   |-> FDiv(screen_width, aspect_ratio),
         forward         |-> forward,
         right           |-> right,
         up              |-> Normalize(Cross(forward, right))]

GetRay(cam, x, y) ==
    LET screen_x == Round(FMul(x * 2 - Scale, cam.screen_width), 2)
        screen_y == Round(FMul(Scale - y * 2, cam.screen_height), 2)
        ray_direction ==
            Normalize(Add(Add(MulNum(cam.right, screen_x), MulNum(cam.up, screen_y)),
                          MulNum(cam.forward, cam.screen_distance)))
    IN  Ray(cam.position, ray_direction)

(***************************************************************************)
(* Scenes, rays and call arguments the model draws its inputs from         *)
(***************************************************************************)
White == PyVec("int", V(1, 1, 1))

\* the three materials of render_scene
PlasticRed ==
    Material(PyVec("float", V(1, 0, 0)), PyVec("float", V(1, 1, 1)), None,
             64, 50, 0, 1000, PyTuple)

GlassBlue ==
    Material(PyVec("float", Vector3(100, 200, 900)), PyVec("float", V(1, 1, 1)), None,
             128, 100, 900, 1520, PyTuple)

ChromeSilver ==
    Material(PyVec("float", Vector3(600, 600, 600)), PyVec("float", V(1, 1, 1)), None,
             256, 900, 0, 1000, PyTuple)

\* Material() with every default but the reflectivity
Plain(reflectivity) ==
    Material(White, White, None, 32, reflectivity, 0, 1000, PyTuple)

\* the scene render_scene builds
DemoScene ==
    Scene(<<Light(V(5, 5, -2), White, 1200),
            Light(V(-4, 2, -1), PyVec("float", Vector3(600, 600, 1000)), 500),
            Light(V(0, 5, 10), White, 300)>>,
          <<Sphere(V(0, 0, 6), 1000, GlassBlue),
            Sphere(Vector3(-1800, -500, 4500), 700, PlasticRed),
            Sphere(Vector3(1800, -500, 5000), 700, ChromeSilver)>>)

\* two mirrors (reflectivity 1) facing each other along the z axis
MirrorScene ==
    Scene(<<Light(V(0, 5, 0), White, 1000)>>,
          <<Sphere(V(0, 0, 5), 1000, Plain(Scale)),
            Sphere(V(0, 0, -5), 1000, Plain(Scale))>>)

\* one matte sphere, no light
MatteScene == Scene(<<>>, <<Sphere(V(0, 0, 5), 2000, Plain(0))>>)

Scenes == {DemoScene, MirrorScene, MatteScene}

Rays ==
    {Ray(V(0, 0, 0), V(0, 0, 1)),
     Ray(V(0, 0, 0), V(0, 1, 0)),
     Ray(V(0, 0, 0), Normalize(Vector3(360, -100, 1000)))}

\* top-level calls are made with -NegDepth <= depth <= MaxDepthArg
NegDepth == 4

MaxDepthArg == 4

\* the interpreter's bound on nested calls, beyond which it raises
\* RecursionError; the depths of the top-level calls reach below
\* DefaultMaxDepth - RecursionLimit, as the integers do for the interpreter's
\* bound
RecursionLimit == 7

(***************************************************************************)
(* Ray.color as a call stack                                               *)
(***************************************************************************)
Workers == DOMAIN stack

Frame(ray, depth, max_depth) ==
    [ray |-> ray, depth |-> depth, max_depth |-> max_depth, pc |-> "start",
     hit_point |-> None, obj |-> None, normal |-> None, view_dir |-> None,
     color |-> None, li |-> 0]

Top(w) == stack[w][Len(stack[w])]

Push(st, f) == Append(st, f)

Pop(st) == SubSeq(st, 1, Len(st) - 1)

SetTop(st, f) == [st EXCEPT ![Len(st)] = f]

\* from the call to the loop over the lights, or to the return of the base case
Enter(sc, f) ==
    CHOOSE g \in {IF BaseCase(h.hit_point, f.depth, f.max_depth)
                  THEN [f EXCEPT !.pc = "ret", !.color = Background(f.ray)]
                  ELSE [f EXCEPT
                          !.pc = "lights",
                          !.hit_point = h.hit_point[1],
                          !.obj = h.obj[1],
                          !.normal = NormalVector(sc.objects[h.obj[1]], h.hit_point[1]),
                          !.view_dir = Neg(Normalize(f.ray.direction)),
                          !.color = Vector3(0, 0, 0),
                          !.li = 1] :
                     h \in {Hit(sc, f.ray)}} : TRUE

\* the recursive call ref_ray.color(scene, depth + 1): max_depth takes its default
RecursiveCall(f) == Frame(RefRay(f), f.depth + 1, DefaultMaxDepth)

\* the exception e leaves Ray.color and every caller: none handles it
Raise(w, e) ==
    /\ stack' = [stack EXCEPT ![w] = <<>>]
    /\ status' = [status EXCEPT ![w] = e]
    /\ UNCHANGED <<total, pix, samp, result, hist>>

ColorEnter(w) ==
    /\ stack[w] # <<>>
    /\ Top(w).pc = "start"
    /\ stack' = [stack EXCEPT ![w] = SetTop(@, Enter(scene, Top(w)))]
    /\ UNCHANGED <<scene, camera, total, pix, samp, buffer, status, result,
                   hist, query, heap, names>>

ColorLight(w) ==
    /\ stack[w] # <<>>
    /\ Top(w).pc = "lights"
    /\ Top(w).li <= Len(scene.lighting)
    /\ LET f == Top(w)
           p == LightPass(f, scene.objects[f.obj].material, scene.lighting[f.li])
       IN  IF p.raised
           THEN Raise(w, "TypeError")
           ELSE /\ stack' = [stack EXCEPT
                       ![w] = SetTop(@, [f EXCEPT !.color = p.color, !.li = @ + 1])]
                \* the except clause prints one line
                /\ hist' = [hist EXCEPT
                       !.printed[w] = IF p.caught THEN @ + 1 ELSE @]
                /\ UNCHANGED <<total, pix, samp, status, result>>
    /\ UNCHANGED <<scene, camera, buffer, query, heap, names>>

ColorReflect(w) ==
    /\ stack[w] # <<>>
    /\ Top(w).pc = "lights"
    /\ Top(w).li > Len(scene.lighting)
    /\ LET f == Top(w)
       IN  IF scene.objects[f.obj].material.reflectivity > 0
           THEN IF Len(stack[w]) >= RecursionLimit
                THEN Raise(w, "RecursionError")
                ELSE /\ stack' = [stack EXCEPT
                            ![w] = Push(SetTop(@, [f EXCEPT !.pc = "wait"]),
                                        RecursiveCall(f))]
                     /\ hist' = [hist EXCEPT !.calls[w] = @ + 1]
                     /\ UNCHANGED <<total, pix, samp, status, result>>
           ELSE /\ stack' = [stack EXCEPT ![w] = SetTop(@, [f EXCEPT !.pc = "ret"])]
                /\ UNCHANGED <<total, pix, samp, status, result, hist>>
    /\ UNCHANGED <<scene, camera, buffer, query, heap, names>>

\* the value returned to a waiting Ray.color: color = mix_color(...); return color
Resume(sc, parent, ref_color) ==
    [parent EXCEPT
        !.color = MixColor(@, ref_color, sc.objects[parent.obj].material.reflectivity),
        !.pc = "ret"]

ColorReturn(w) ==
    /\ stack[w] # <<>>
    /\ Top(w).pc = "ret"
    /\ LET f == Top(w)
           rest == Pop(stack[w])
       IN  IF rest # <<>>
           THEN /\ stack' = [stack EXCEPT
                       ![w] = SetTop(rest, Resume(scene, rest[Len(rest)], f.color))]
                /\ UNCHANGED <<total, samp, status, result, hist>>
           ELSE /\ stack' = [stack EXCEPT ![w] = <<>>]
                /\ IF pix[w] = None
                   THEN /\ result' = [result EXCEPT ![w] = Some(f.color)]
                        /\ status' = [status EXCEPT ![w] = "returned"]
                        /\ UNCHANGED <<total, samp, hist>>
                   ELSE \* total_color = total_color + color
                        /\ total' = [total EXCEPT ![w] = Add(@, f.color)]
                        /\ samp' = [samp EXCEPT ![w] = @ + 1]
                        /\ hist' = [hist EXCEPT !.samples[w] = Append(@, f.color)]
                        /\ UNCHANGED <<status, result>>
    /\ UNCHANGED <<scene, camera, pix, buffer, query, heap, names>>

\* a caller's ray.color(scene, depth, max_depth); one such call per behaviour
Call(w, ray, depth, max_depth) ==
    /\ status[w] = "idle"
    /\ pix[w] = None
    /\ stack' = [stack EXCEPT ![w] = <<Frame(ray, depth, max_depth)>>]
    /\ status' = [status EXCEPT ![w] = "running"]
    /\ result' = [result EXCEPT ![w] = None]
    /\ hist' = [hist EXCEPT !.top[w] = Some([ray |-> ray, depth |-> depth,
                                             max_depth |-> max_depth]),
                            !.calls[w] = 0]
    /\ UNCHANGED <<scene, camera, total, pix, samp, buffer, query, heap, names>>

NoHist(ws) ==
    [top      |-> [w \in ws |-> None],   \* the arguments of the top-level call
     calls    |-> [w \in ws |-> 0],      \* recursive calls made since that call
     printed  |-> [w \in ws |-> 0],      \* lines printed by the except clause
     samples  |-> [w \in ws |-> <<>>],   \* colors returned for the current pixel
     subs     |-> [w \in ws |-> <<>>],   \* sub-samples begun for the current pixel
     prev     |-> None,                  \* the color returned on the first scene
     started  |-> {},                    \* the pixels whose computation has begun
     written  |-> <<>>,                  \* the writes to the buffer, in order
     phase    |-> "seq",                 \* the sequential or the parallel render
     refbuf   |-> None,                  \* the buffer of the sequential render
     ops      |-> 0]                     \* Vector3 operations applied

\* no call of Ray.color and no pixel in progress
InitIdle(ws) ==
    /\ stack = [w \in ws |-> <<>>]
    /\ total = [w \in ws |-> Vector3(0, 0, 0)]
    /\ pix = [w \in ws |-> None]
    /\ samp = [w \in ws |-> 0]
    /\ status = [w \in ws |-> "idle"]
    /\ result = [w \in ws |-> None]
    /\ hist = NoHist(ws)

\* everything but the scene, for the callers of Ray.color
InitCaller(ws) ==
    /\ InitIdle(ws)
    /\ camera = None
    /\ buffer = <<>>
    /\ query = None
    /\ heap = <<>>
    /\ names = <<>>

Init ==
    /\ scene \in Scenes
    /\ InitCaller({1})

Shade(w) == ColorEnter(w) \/ ColorLight(w) \/ ColorReflect(w) \/ ColorReturn(w)

CallAny(w) ==
    \E ray \in Rays, depth \in (-NegDepth) .. MaxDepthArg, max_depth \in 0 .. MaxDepthArg :
        Call(w, ray, depth, max_depth)

Next ==
    \/ CallAny(1)
    \/ ColorEnter(1)
    \/ ColorLight(1)
    \/ ColorReflect(1)
    \/ ColorReturn(1)

Spec == Init /\ [][Next]_vars

SpecFair == Init /\ [][Next]_vars /\ WF_vars(Shade(1))

(***************************************************************************)
(* Scenes whose colors are not all Vector3 objects of numbers              *)
(***************************************************************************)
\* a grazing ray: it meets the sphere of the scenes below at more than 45 degrees
GrazingRay == Ray(V(0, 0, 0), Normalize(Vector3(190, 0, 1000)))

\* a Vector3 of strings, as Vector3("a", "b", "c")
SeqColor == PyVec("seq", V(0, 0, 0))

\* the color of the first light is a tuple
TupleLightScene ==
    Scene(<<Light(V(5, 0, 0), PyTuple, 1000), Light(V(0, 5, 0), White, 1000)>>,
          <<Sphere(V(0, 0, 5), 1000, Plain(0))>>)

\* the light behind the surface has a color of strings, the other is white
SeqLightScene ==
    Scene(<<Light(V(-5, 0, 10), SeqColor, 1000), Light(V(5, 0, 0), White, 1000)>>,
          <<Sphere(V(0, 0, 5), 1000, Plain(0))>>)

\* the same lights in the other order, on a reflecting sphere
SeqLightLastScene ==
    Scene(<<Light(V(5, 0, 0), White, 1000), Light(V(-5, 0, 10), SeqColor, 1000)>>,
          <<Sphere(V(0, 0, 5), 1000, Plain(Scale \div 2))>>)

\* the diffuse color is a Vector3 of strings
SeqDiffuseScene ==
    Scene(<<Light(V(0, 0, 10), White, 1000), Light(V(0, 0, 0), White, 1000)>>,
          <<Sphere(V(0, 0, 5), 1000,
                   Material(SeqColor, White, None, 32, 0, 0, 1000, PyTuple))>>)

ErrScenes == {TupleLightScene, SeqLightScene, SeqLightLastScene, SeqDiffuseScene}

InitErr ==
    /\ scene \in ErrScenes \cup {DemoScene}
    /\ InitCaller({1})

NextErr ==
    \/ \E ray \in Rays \cup {GrazingRay}, depth \in 0 .. DefaultMaxDepth :
           Call(1, ray, depth, DefaultMaxDepth)
    \/ ColorEnter(1)
    \/ ColorLight(1)
    \/ ColorReflect(1)
    \/ ColorReturn(1)

SpecErr == InitErr /\ [][NextErr]_vars

(***************************************************************************)
(* Two scenes that differ in the fields the shading never reads            *)
(***************************************************************************)
WithUnused(sc, transparency, refractive_index, emission_color, ambient_color, intensity) ==
    [lighting |-> [i \in DOMAIN sc.lighting |->
                      [sc.lighting[i] EXCEPT !.intensity = intensity]],
     objects  |-> [i \in DOMAIN sc.objects |->
                      [sc.objects[i] EXCEPT
                          !.material.transparency = transparency,
                          !.material.refractive_index = refractive_index,
                          !.material.emission_color = emission_color,
                          !.material.ambient_color = ambient_color]]]

\* the same call once more, on a scene with other values in those fields
Vary(w) ==
    /\ status[w] = "returned"
    /\ hist.prev = None
    /\ \E transparency \in {0, 900}, refractive_index \in {1000, 1520},
          emission_color \in {PyTuple, White},
          ambient_color \in {White, PyVec("float", V(0, 0, 0))},
          intensity \in {300, 1200} :
           scene' = WithUnused(scene, transparency, refractive_index,
                               emission_color, ambient_color, intensity)
    /\ stack' = [stack EXCEPT ![w] =
                    <<Frame(hist.top[w][1].ray, hist.top[w][1].depth,
                            hist.top[w][1].max_depth)>>]
    /\ status' = [status EXCEPT ![w] = "running"]
    /\ result' = [result EXCEPT ![w] = None]
    /\ hist' = [hist EXCEPT !.prev = result[w], !.calls[w] = 0]
    /\ UNCHANGED <<camera, total, pix, samp, buffer, query, heap, names>>

NextVary ==
    \/ CallAny(1)
    \/ ColorEnter(1)
    \/ ColorLight(1)
    \/ ColorReflect(1)
    \/ ColorReturn(1)
    \/ Vary(1)

SpecVary == Init /\ [][NextVary]_vars

(***************************************************************************)
(* Properties of Ray.color                                                 *)
(***************************************************************************)
\* C1: in the chain of a call Ray.color(scene, depth, max_depth), an
\* invocation whose depth has reached the caller's max_depth returns the
\* background color without shading, so the chain makes at most
\* max(0, max_depth - depth) recursive calls.
C1_ChainBoundedByCallerMaxDepth ==
    \A w \in Workers :
        hist.top[w] # None =>
            LET top == hist.top[w][1]
            IN  /\ hist.calls[w] <= Max(0, top.max_depth - top.depth)
                /\ \A i \in 1 .. Len(stack[w]) :
                       stack[w][i].depth >= top.max_depth =>
                           stack[w][i].pc \in {"start", "ret"}

\* C8: every call of Ray.color eventually returns, for every scene and every
\* integer depth and max_depth, the facing mirrors included.
C8_ColorTerminates ==
    \A w \in {1} : (status[w] = "running") ~> (status[w] = "returned")

\* the terms of the light that ColorLight(w) is about to handle
TermsOf(w) ==
    LET f == Top(w)
    IN  Terms(f, scene.objects[f.obj].material, scene.lighting[f.li])

\* computing the diffuse or the specular term raises TypeError
ComputeFails(w) ==
    TermsOf(w).diffuse = TypeError \/ TermsOf(w).specular = TypeError

\* the terms are computed and their sum with color raises TypeError
SumFails(w) ==
    /\ ~ComputeFails(w)
    /\ PyAdd(PyAdd(PyVec("float", Top(w).color), TermsOf(w).diffuse),
             TermsOf(w).specular) = TypeError

AtLight(w) ==
    /\ stack[w] # <<>>
    /\ Top(w).pc = "lights"
    /\ Top(w).li <= Len(scene.lighting)

\* the light's contribution is dropped and the loop goes on with the next light
LightDropped(w) ==
    /\ status'[w] = "running"
    /\ Len(stack'[w]) = Len(stack[w])
    /\ stack'[w][Len(stack[w])].pc = "lights"
    /\ stack'[w][Len(stack[w])].color = Top(w).color
    /\ stack'[w][Len(stack[w])].li = Top(w).li + 1

\* C5 as stated: a TypeError in computing or in summing a light's diffuse and
\* specular terms drops that light and does not abort the ray's color.
C5_AnyTypeErrorDropsLight ==
    [][\A w \in Workers :
          (AtLight(w) /\ (ComputeFails(w) \/ SumFails(w))) => LightDropped(w)]_vars

\* C5 amended: a TypeError in summing color + diffuse + specular drops that
\* light and the loop goes on; a TypeError in computing the diffuse or the
\* specular term leaves Ray.color as an exception.
C5_SumTypeErrorDropsLight ==
    [][\A w \in Workers :
          /\ (AtLight(w) /\ SumFails(w)) => LightDropped(w)
          /\ (AtLight(w) /\ ComputeFails(w)) =>
                 (status'[w] = "TypeError" /\ stack'[w] = <<>>)]_vars

\* a call returned a color to which a light after the dropped one contributed
C5_Witness ==
    /\ status[1] = "returned"
    /\ hist.printed[1] = 1
    /\ scene = SeqLightScene
    /\ result[1][1].x > 0

\* C7: the color of a call does not change when transparency,
\* refractive_index, emission_color, ambient_color and the lights' intensity
\* take other values.
C7_UnusedFieldsDoNotMatter ==
    \A w \in Workers :
        (status[w] = "returned" /\ hist.prev # None) => result[w] = hist.prev

\* the second call returned a shaded and reflected color
C7_Witness ==
    /\ status[1] = "returned"
    /\ hist.prev # None
    /\ scene \notin Scenes
    /\ hist.calls[1] > 0
    /\ Len(scene.lighting) > 1

(***************************************************************************)
(* Sphere.intersect and Scene.hit applied to rays and scenes               *)
(***************************************************************************)
\* two spheres the ray along the z axis meets at the same t
TwinScene ==
    Scene(<<>>, <<Sphere(V(2, 0, 5), 3000, Plain(0)),
                  Sphere(V(-2, 0, 5), 3000, Plain(0)),
                  Sphere(V(0, 0, 7), 1000, Plain(0))>>)

\* a sphere around the origin and one in front of it
NestedScene ==
    Scene(<<>>, <<Sphere(V(0, 0, 5), 1000, Plain(0)),
                  Sphere(V(0, 0, 0), 2000, Plain(0))>>)

HitScenes == {DemoScene, TwinScene, NestedScene, MatteScene, Scene(<<>>, <<>>)}

\* origins at the camera, just outside and on the sphere of radius 1 at
\* (0, 0, 5), and behind the spheres
HitOrigins == {V(0, 0, 0), Vector3(0, 0, 3999), V(0, 0, 4), V(0, 0, 8)}

\* directions, not all of unit length
HitDirections ==
    {V(0, 0, 1), V(0, 0, -1), V(0, 1, 0), V(0, 0, 2), Vector3(360, -100, 1000)}

InitHit ==
    /\ scene \in HitScenes
    /\ query \in {[ray |-> Ray(o, d), ts |-> <<>>, res |-> None] :
                     o \in HitOrigins, d \in HitDirections}
    /\ InitIdle({1})
    /\ camera = None
    /\ buffer = <<>>
    /\ heap = <<>>
    /\ names = <<>>

\* obj.intersect(ray) for the next sphere of the scene
ApplyIntersect ==
    /\ query.res = None
    /\ Len(query.ts) < Len(scene.objects)
    /\ query' = [query EXCEPT
                    !.ts = Append(@, Intersect(scene.objects[Len(@) + 1], query.ray))]
    /\ UNCHANGED <<scene, camera, stack, total, pix, samp, buffer, status, result,
                   hist, heap, names>>

\* scene.hit(ray)
ApplyHit ==
    /\ query.res = None
    /\ Len(query.ts) = Len(scene.objects)
    /\ query' = [query EXCEPT !.res = Some(Hit(scene, query.ray))]
    /\ UNCHANGED <<scene, camera, stack, total, pix, samp, buffer, status, result,
                   hist, heap, names>>

NextHit == ApplyIntersect \/ ApplyHit

SpecHit == InitHit /\ [][NextHit]_vars

C4_IntersectAboveEpsilon ==
    query # None =>
        \A i \in 1 .. Len(query.ts) :
            LET t == query.ts[i]
                q == Quadratic(scene.objects[i], query.ray)
            IN  /\ t = None \/ t[1] > HitEps
                /\ q.d < 0 => t = None
                /\ q.d >= 0 =>
                       IF Roots(q).t1 > HitEps THEN t = Some(Roots(q).t1)
                       ELSE IF Roots(q).t2 > HitEps THEN t = Some(Roots(q).t2)
                       ELSE t = None

\* a smaller root in (0, 0.001] was passed over for the larger one
C4_Witness ==
    /\ query # None
    /\ \E i \in 1 .. Len(query.ts) :
           LET q == Quadratic(scene.objects[i], query.ray)
           IN  /\ q.d >= 0
               /\ Roots(q).t1 > 0
               /\ Roots(q).t1 <= HitEps
               /\ query.ts[i] = Some(Roots(q).t2)

(***************************************************************************)
(* render_scene                                                            *)
(***************************************************************************)
\* the image, a few pixels wide and high
Width == 2

Height == 2

\* sample = 2: the sub-samples per pixel and axis
Sample == 2

\* the depth render_scene passes to Ray.color
RenderDepth == 2

RenderCamera == Camera(V(0, 0, 0), V(0, 0, 5), 75, Width, Height)

\* a reflective sphere in front of the camera, and beside it a reflective and
\* a matte one that its reflections meet
ThreeBallScene ==
    Scene(<<Light(V(5, 5, -2), White, 1200)>>,
          <<Sphere(V(0, 0, 5), 2000, Plain(Scale \div 2)),
            Sphere(V(4, 4, 2), 2500, Plain(Scale \div 2)),
            Sphere(V(-4, -4, 2), 2500, Plain(0))>>)

RenderScenes == {DemoScene, ThreeBallScene, MatteScene}

\* zeros((height, width, 3), dtype=uint8)
Zeros(height, width) == [y \in 1 .. height |-> [x \in 1 .. width |-> <<0, 0, 0>>]]

\* image_buffer[y][x] = rgb, written to every cell of the row
StoreMutRow(buf, x, y, rgb) == [buf EXCEPT ![y + 1] = [c \in DOMAIN @ |-> rgb]]

\* image_buffer[y][x] = rgb
Store(buf, x, y, rgb) == [buf EXCEPT ![y + 1][x + 1] = rgb]

\* Vector3.__itruediv__: the components the object holds afterwards
ITrueDiv(self, scalar) ==
    Vector3(FDiv(self.x, scalar), FDiv(self.y, scalar), FDiv(self.z, scalar))

AverageMutBySample(total_color) == ITrueDiv(total_color, Sample * Scale)

\* total_color /= (sample ** 2)
Average(total_color) == ITrueDiv(total_color, Sample * Sample * Scale)

\* the ray of sub-sample (sx, sy) of pixel (x, y)
SampleRay(cam, x, y, sx, sy) ==
    LET offset_x == FDiv(sx * Scale + Scale \div 2, Sample * Scale)
        offset_y == FDiv(sy * Scale + Scale \div 2, Sample * Scale)
        u == FDiv(x * Scale + offset_x, cam.width * Scale)
        v == FDiv(y * Scale + offset_y, cam.height * Scale)
    IN  GetRay(cam, u, v)

\* the pixel after (x, y) in "for y in range(height): for x in range(width)"
LoopNext(x, y) ==
    IF x + 1 < Width THEN Some(<<x + 1, y>>)
    ELSE IF y + 1 < Height THEN Some(<<0, y + 1>>)
    ELSE None

\* the body of the loops begins for pixel (x, y): total_color = Vector3(0, 0, 0)
BeginPixel(w, p) ==
    /\ pix' = [pix EXCEPT ![w] = p]
    /\ total' = [total EXCEPT ![w] = Vector3(0, 0, 0)]
    /\ samp' = [samp EXCEPT ![w] = 0]

InitRender ==
    /\ scene \in RenderScenes
    /\ camera = RenderCamera
    /\ buffer = Zeros(Height, Width)
    /\ InitIdle({1})
    /\ query = None
    /\ heap = <<>>
    /\ names = <<>>

\* the loops are entered at pixel (0, 0)
RenderStart(w) ==
    /\ status[w] = "idle"
    /\ hist.phase = "seq"
    /\ pix[w] = None
    /\ hist.started = {}
    /\ BeginPixel(w, Some(<<0, 0>>))
    /\ hist' = [hist EXCEPT !.started = {<<0, 0>>}, !.samples[w] = <<>>,
                            !.subs[w] = <<>>]
    /\ UNCHANGED <<scene, camera, stack, buffer, status, result, query, heap, names>>

\* ray = camera.get_ray(u, v); color = ray.color(scene, 2) for the next (sx, sy)
SampleStart(w) ==
    /\ status[w] = "idle"
    /\ pix[w] # None
    /\ stack[w] = <<>>
    /\ samp[w] < Sample * Sample
    /\ LET sx == samp[w] % Sample
           sy == samp[w] \div Sample
           ray == SampleRay(camera, pix[w][1][1], pix[w][1][2], sx, sy)
       IN  /\ stack' = [stack EXCEPT ![w] = <<Frame(ray, RenderDepth, DefaultMaxDepth)>>]
           /\ hist' = [hist EXCEPT
                  !.top[w] = Some([ray |-> ray, depth |-> RenderDepth,
                                   max_depth |-> DefaultMaxDepth]),
                  !.calls[w] = 0,
                  !.subs[w] = Append(@, <<sx, sy>>)]
    /\ UNCHANGED <<scene, camera, total, pix, samp, buffer, status, result,
                   query, heap, names>>

\* total_color /= (sample ** 2); image_buffer[y][x] = total_color.rgb()
StoreAverage(w) ==
    /\ status[w] = "idle"
    /\ pix[w] # None
    /\ stack[w] = <<>>
    /\ samp[w] = Sample * Sample
    /\ LET x == pix[w][1][1]
           y == pix[w][1][2]
           rgb == Rgb(Average(total[w]))
       IN  /\ buffer' = Store(buffer, x, y, rgb)
           /\ hist' = [hist EXCEPT
                  !.written = Append(@, [x |-> x, y |-> y, worker |-> w,
                                         subs |-> hist.subs[w],
                                         samples |-> hist.samples[w]]),
                  !.started = IF hist.phase = "seq" /\ LoopNext(x, y) # None
                              THEN @ \cup {LoopNext(x, y)[1]} ELSE @,
                  !.samples[w] = <<>>,
                  !.subs[w] = <<>>]

\* the end of the loop body, and the next iteration
PixelFinish(w) ==
    /\ hist.phase = "seq"
    /\ StoreAverage(w)
    /\ BeginPixel(w, LoopNext(pix[w][1][1], pix[w][1][2]))
    /\ UNCHANGED <<scene, camera, stack, status, result, query, heap, names>>

NextRender ==
    \/ RenderStart(1)
    \/ SampleStart(1)
    \/ ColorEnter(1)
    \/ ColorLight(1)
    \/ ColorReflect(1)
    \/ ColorReturn(1)
    \/ PixelFinish(1)

SpecRender == InitRender /\ [][NextRender]_vars

RECURSIVE SumColors(_)
SumColors(cs) ==
    IF cs = <<>> THEN Vector3(0, 0, 0)
    ELSE Add(SumColors(SubSeq(cs, 1, Len(cs) - 1)), cs[Len(cs)])

\* the sub-samples in the order of "for sy ...: for sx ..."
SubSamples == [k \in 1 .. Sample * Sample |-> <<(k - 1) % Sample, (k - 1) \div Sample>>]

\* C9: render_scene takes the pixels in row-major order, shades each of a
\* pixel's N * N sub-samples once and one at a time, and writes each cell of
\* the buffer once, with the rgb of the sum of its samples divided by N * N.
C9_RowMajorSampledOnce ==
    /\ Len(hist.written) <= Width * Height
    /\ \A k \in 1 .. Len(hist.written) :
           LET wr == hist.written[k]
           IN  /\ wr.x = (k - 1) % Width
               /\ wr.y = (k - 1) \div Width
               /\ wr.subs = SubSamples
               /\ Len(wr.samples) = Sample * Sample
               /\ buffer[wr.y + 1][wr.x + 1] =
                      Rgb(TrueDiv(SumColors(wr.samples), Sample * Sample * Scale))
    /\ \A k \in Len(hist.written) + 1 .. Width * Height :
           buffer[((k - 1) \div Width) + 1][((k - 1) % Width) + 1] = <<0, 0, 0>>
    /\ pix[1] # None =>
           /\ pix[1][1] = <<Len(hist.written) % Width, Len(hist.written) \div Width>>
           /\ hist.subs[1] = SubSeq(SubSamples, 1, Len(hist.subs[1]))
           /\ Len(hist.samples[1]) = samp[1]
           /\ Len(hist.subs[1]) = samp[1] + (IF stack[1] = <<>> THEN 0 ELSE 1)
    /\ pix[1] = None => stack[1] = <<>> /\ Len(hist.written) \in {0, Width * Height}

\* the render is over and a pixel holds a color that is neither black nor
\* saturated
C9_Witness ==
    /\ pix[1] = None
    /\ Len(hist.written) = Width * Height
    /\ \E y \in 1 .. Height, x \in 1 .. Width :
           \E c \in 1 .. 3 : buffer[y][x][c] \in 1 .. 254

\* C10: in render_scene a primary ray (depth 2, max_depth 3) causes at most
\* one recursive call, made only on a hit of a material with reflectivity > 0,
\* and that call returns the background without a further call.
C10_OneBounce ==
    /\ hist.calls[1] <= 1
    /\ Len(stack[1]) <= 2
    /\ Len(stack[1]) >= 1 =>
           /\ stack[1][1].depth = RenderDepth
           /\ hist.calls[1] = 1 =>
                  scene.objects[stack[1][1].obj].material.reflectivity > 0
    /\ Len(stack[1]) = 2 =>
           /\ hist.calls[1] = 1
           /\ stack[1][1].pc = "wait"
           /\ stack[1][2].pc \in {"start", "ret"}
           /\ stack[1][2].pc = "ret" => stack[1][2].color = Background(stack[1][2].ray)

\* the reflection ray of a primary hit has met a reflective sphere and has
\* returned without shading it
C10_Witness ==
    /\ Len(stack[1]) = 2
    /\ stack[1][2].pc = "ret"
    /\ LET h == Hit(scene, stack[1][2].ray)
       IN  /\ h.obj # None
           /\ scene.objects[h.obj[1]].material.reflectivity > 0

(***************************************************************************)
(* The pixels of render_scene computed by several workers                  *)
(***************************************************************************)
NWorkers == 2

Pixels == {<<x, y>> : x \in 0 .. Width - 1, y \in 0 .. Height - 1}

InitPar ==
    /\ scene \in {ThreeBallScene}
    /\ camera = RenderCamera
    /\ buffer = Zeros(Height, Width)
    /\ InitIdle(1 .. NWorkers)
    /\ query = None
    /\ heap = <<>>
    /\ names = <<>>

\* the sequential render is over; the same image is computed again, into a
\* fresh buffer, by the workers
StartParallel ==
    /\ hist.phase = "seq"
    /\ \A w \in Workers : pix[w] = None
    /\ Len(hist.written) = Width * Height
    /\ buffer' = Zeros(Height, Width)
    /\ hist' = [hist EXCEPT !.phase = "par", !.refbuf = Some(buffer),
                            !.started = {}, !.written = <<>>]
    /\ UNCHANGED <<scene, camera, stack, total, pix, samp, status, result,
                   query, heap, names>>

\* a free worker takes a pixel no worker has taken
WorkerStart(w) ==
    /\ status[w] = "idle"
    /\ hist.phase = "par"
    /\ pix[w] = None
    /\ \E p \in Pixels \ hist.started :
           /\ BeginPixel(w, Some(p))
           /\ hist' = [hist EXCEPT !.started = @ \cup {p}, !.samples[w] = <<>>,
                                   !.subs[w] = <<>>]
    /\ UNCHANGED <<scene, camera, stack, buffer, status, result, query, heap, names>>

\* the worker writes its pixel and is free again
WorkerFinish(w) ==
    /\ hist.phase = "par"
    /\ StoreAverage(w)
    /\ pix' = [pix EXCEPT ![w] = None]
    /\ UNCHANGED <<scene, camera, stack, total, samp, status, result, query,
                   heap, names>>

NextPar ==
    \/ RenderStart(1)
    \/ PixelFinish(1)
    \/ StartParallel
    \/ \E w \in Workers :
           \/ WorkerStart(w)
           \/ SampleStart(w)
           \/ ColorEnter(w)
           \/ ColorLight(w)
           \/ ColorReflect(w)
           \/ ColorReturn(w)
           \/ WorkerFinish(w)

SpecPar == InitPar /\ [][NextPar]_vars

ParDone == hist.phase = "par" /\ Len(hist.written) = Width * Height

\* C2: a step of the render leaves the scene and the camera as they are and
\* changes no cell of the buffer but that of the pixel the stepping worker
\* holds, and when the workers have computed every pixel, in any order and
\* interleaving, the buffer equals that of the sequential row-major render.
C2_OrderIndependent ==
    /\ [][/\ scene' = scene
          /\ camera' = camera
          /\ hist.phase = hist'.phase =>
                 \A y \in 1 .. Height, x \in 1 .. Width :
                     buffer'[y][x] # buffer[y][x] =>
                         \E w \in Workers :
                             /\ pix[w] = Some(<<x - 1, y - 1>>)
                             /\ stack[w] = <<>>
                             /\ \A u \in Workers \ {w} :
                                    <<pix'[u], total'[u], samp'[u], stack'[u]>> =
                                        <<pix[u], total[u], samp[u], stack[u]>>]_vars
    /\ [](ParDone => buffer = hist.refbuf[1])

\* the workers have written every pixel, not in row-major order and not all
\* by the same worker
C2_Witness ==
    /\ ParDone
    /\ \E k \in 1 .. Len(hist.written) :
           <<hist.written[k].x, hist.written[k].y>> #
               <<(k - 1) % Width, (k - 1) \div Width>>
    /\ \E j, k \in 1 .. Len(hist.written) :
           hist.written[j].worker # hist.written[k].worker
    /\ \E y \in 1 .. Height, x \in 1 .. Width : buffer[y][x] # buffer[1][1]

(***************************************************************************)
(* Vector3 objects and the names that hold them                            *)
(***************************************************************************)
\* operations applied in a behaviour
MaxOps == 2

\* the operations are applied while the components stay within this range
MaxCoord == 4

InRange(v) ==
    \A c \in {v.x, v.y, v.z} : c >= -(MaxCoord * Scale) /\ c <= MaxCoord * Scale

\* two Materials built with the default diffuse_color, a Light built with the
\* default color, and two local names
Holders == {"m1.diffuse_color", "m2.diffuse_color", "light.color", "v", "w"}

Locals == {"v", "w"}

Scalars == {0, Scale \div 2, 2 * Scale}

\* the default of a signature is one object, evaluated once: both Materials
\* hold it; "w = v" makes w hold the object of v
InitVec ==
    /\ heap \in {<<V(1, 1, 1), V(1, 1, 1), a>> : a \in {V(2, 4, 2), V(0, 3, 4), V(1, 0, 0)}}
    /\ names = [n \in Holders |->
                   CASE n \in {"m1.diffuse_color", "m2.diffuse_color"} -> 1
                     [] n = "light.color" -> 2
                     [] OTHER -> 3]
    /\ scene = Scene(<<>>, <<>>)
    /\ camera = None
    /\ buffer = <<>>
    /\ query = None
    /\ InitIdle({1})

Obj(n) == heap[names[n]]

\* the operations that return a new Vector3
Binary(op, self, other) ==
    CASE op = "add" -> Add(self, other)
      [] op = "sub" -> Sub(self, other)
      [] op = "mul" -> MulVec(self, other)
      [] op = "cross" -> Cross(self, other)
      [] op = "reflect" -> Reflect(self, other)

Unary(op, self, k) ==
    CASE op = "neg" -> Neg(self)
      [] op = "mul" -> MulNum(self, k)
      [] op = "truediv" -> TrueDiv(self, k)
      [] op = "normalize" -> Normalize(self)

\* the operations that return a number or a list of numbers
Measure(op, self, other) ==
    CASE op = "dot" -> Dot(self, other)
      [] op = "length" -> Length(self)
      [] op = "rgb" -> Rgb(self)

Counted == hist' = [hist EXCEPT !.ops = @ + 1]

\* t = a <op> b: the result is a new object, which t now holds
ApplyBinary(t, a, b, op) ==
    /\ status[1] = "idle"
    /\ hist.ops < MaxOps
    /\ InRange(Binary(op, Obj(a), Obj(b)))
    /\ heap' = Append(heap, Binary(op, Obj(a), Obj(b)))
    /\ names' = [names EXCEPT ![t] = Len(heap) + 1]
    /\ Counted
    /\ UNCHANGED <<scene, camera, stack, total, pix, samp, buffer, status, result,
                   query>>

\* t = <op> a, t = a * k, t = a / k; a / 0 raises ValueError
ApplyUnary(t, a, op, k) ==
    /\ status[1] = "idle"
    /\ hist.ops < MaxOps
    /\ IF op = "truediv" /\ k = 0
       THEN /\ status' = [status EXCEPT ![1] = "ValueError"]
            /\ UNCHANGED <<heap, names>>
       ELSE /\ InRange(Unary(op, Obj(a), k))
            /\ heap' = Append(heap, Unary(op, Obj(a), k))
            /\ names' = [names EXCEPT ![t] = Len(heap) + 1]
            /\ UNCHANGED status
    /\ Counted
    /\ UNCHANGED <<scene, camera, stack, total, pix, samp, buffer, result, query>>

\* a.dot(b), a.length(), a.rgb()
ApplyMeasure(a, b, op) ==
    /\ status[1] = "idle"
    /\ hist.ops < MaxOps
    /\ query' = Some(Measure(op, Obj(a), Obj(b)))
    /\ Counted
    /\ UNCHANGED <<scene, camera, stack, total, pix, samp, buffer, status, result,
                   heap, names>>

\* a /= k: __itruediv__ assigns the components of self and returns self, so a
\* holds the same object as before; a /= 0 raises ValueError
ApplyITrueDiv(a, k) ==
    /\ status[1] = "idle"
    /\ hist.ops < MaxOps
    /\ IF k = 0
       THEN /\ status' = [status EXCEPT ![1] = "ValueError"]
            /\ UNCHANGED heap
       ELSE /\ InRange(ITrueDiv(Obj(a), k))
            /\ heap' = [heap EXCEPT ![names[a]] = ITrueDiv(@, k)]
            /\ UNCHANGED status
    /\ Counted
    /\ UNCHANGED <<scene, camera, stack, total, pix, samp, buffer, result, query,
                   names>>

NextVec ==
    \/ \E t \in Locals, a, b \in Holders,
          op \in {"add", "sub", "mul", "cross", "reflect"} : ApplyBinary(t, a, b, op)
    \/ \E t \in Locals, a \in Holders, k \in Scalars,
          op \in {"neg", "mul", "truediv", "normalize"} : ApplyUnary(t, a, op, k)
    \/ \E a, b \in Holders, op \in {"dot", "length", "rgb"} : ApplyMeasure(a, b, op)
    \/ \E a \in Holders, k \in Scalars : ApplyITrueDiv(a, k)

SpecVec == InitVec /\ [][NextVec]_vars

\* C6: no Vector3 operation, "/=" included, changes the components of an
\* existing Vector3 object, so what a holder of a shared vector sees never
\* changes through another holder.
C6_Vector3Immutable ==
    [][\A id \in DOMAIN heap : heap'[id] = heap[id]]_vars

====
